---- MODULE Spec2Model ----
(***************************************************************************)
(* A model of libfm_sparse_v1.py: the Bayesian factorization machine       *)
(* (class libFM) and its Gibbs sampler (class MCMC_learn).                 *)
(*                                                                         *)
(* Numbers.  A float is modelled as an extended rational <<n, d>>:         *)
(* d > 0 and gcd(n, d) = 1 for a finite value, <<1, 0>> for +inf,          *)
(* <<-1, 0>> for -inf and <<0, 0>> for NaN.  The operations below follow   *)
(* IEEE-754 on the special values (inf - inf = NaN, 0 * inf = NaN,         *)
(* 1 / 0 = inf, NaN absorbs) and are exact on finite values, so rounding   *)
(* is the one thing the model leaves out.  NaN is a value like any other   *)
(* here: two NaN entries compare equal.                                    *)
(***************************************************************************)
EXTENDS Integers, Sequences, FiniteSets, TLC

----------------------------------------------------------------------------
(* numpy float64 arithmetic *)

Abs(n) == IF n < 0 THEN -n ELSE n

Sgn(n) == IF n < 0 THEN -1 ELSE IF n = 0 THEN 0 ELSE 1

RECURSIVE GCD(_, _)
GCD(a, b) == IF b = 0 THEN a ELSE GCD(b, a % b)

Norm(n, d) ==
    IF d = 0 THEN <<Sgn(n), 0>>
    ELSE LET g == GCD(Abs(n), Abs(d))
         IN  <<(Sgn(d) * n) \div g, Abs(d) \div g>>

Q(n) == <<n, 1>>
Zero == <<0, 1>>
One == <<1, 1>>
Half == <<1, 2>>
NaN == <<0, 0>>
PInf == <<1, 0>>
NInf == <<-1, 0>>

isnan(a) == a = NaN
isinf(a) == a = PInf \/ a = NInf
isfinite(a) == a[2] # 0

RAdd(a, b) ==
    IF isnan(a) \/ isnan(b) THEN NaN
    ELSE IF isinf(a) THEN (IF isinf(b) /\ b # a THEN NaN ELSE a)
    ELSE IF isinf(b) THEN b
    ELSE LET g == GCD(a[2], b[2])
         IN  Norm(a[1] * (b[2] \div g) + b[1] * (a[2] \div g), (a[2] \div g) * b[2])

RNeg(a) == <<-a[1], a[2]>>

RSub(a, b) == RAdd(a, RNeg(b))

RMul(a, b) ==
    IF a[2] = 0 \/ b[2] = 0 THEN Norm(Sgn(a[1]) * Sgn(b[1]), 0)
    ELSE LET g1 == GCD(Abs(a[1]), b[2])
             g2 == GCD(Abs(b[1]), a[2])
         IN  Norm((a[1] \div g1) * (b[1] \div g2), (a[2] \div g2) * (b[2] \div g1))

\* 1.0 / a on a numpy float: 1/0 is inf (the zeros the sampler divides by are
\* sums of squares and precisions, never negative zero), 1/inf is 0.
Recip(a) == Norm(Sgn(a[1]) * a[2] + (IF a[1] = 0 /\ a[2] # 0 THEN 1 ELSE 0), Abs(a[1]))

RDiv(a, b) == RMul(a, Recip(b))

\* a <= b on floats: FALSE whenever an operand is NaN.
RLe(a, b) ==
    IF isnan(a) \/ isnan(b) THEN FALSE
    ELSE IF a = b THEN TRUE
    ELSE IF a = NInf \/ b = PInf THEN TRUE
    ELSE IF a = PInf \/ b = NInf THEN FALSE
    ELSE a[1] * b[2] <= b[1] * a[2]

RMin(a, b) == IF isnan(a) \/ isnan(b) THEN NaN ELSE IF RLe(a, b) THEN a ELSE b
RMax(a, b) == IF isnan(a) \/ isnan(b) THEN NaN ELSE IF RLe(a, b) THEN b ELSE a

\* np.clip(a, lo, hi) = minimum(maximum(a, lo), hi); NaN stays NaN.
clip(a, lo, hi) == RMin(RMax(a, lo), hi)

----------------------------------------------------------------------------
(* Bounds of the model *)

MaxIter == 2      \* num_iter ranges over 1..MaxIter
MaxFactor == 2    \* dim's third component ranges over 0..MaxFactor
MaxSeed == 1      \* generator states, and the seeds that select them: 0..MaxSeed
MaxLen == 2       \* the vectors handed to evaluate have 0..MaxLen entries

----------------------------------------------------------------------------
(* Inputs: the data files as Data.__init__ loads them, and libFM's arguments *)

\* X[l][i] is the value of feature i in sample l; 0 means the entry is not
\* stored (the libfm format lists the non-zero features of a sample only).
\* Every sample has num_attribute columns.  A sample with a single feature
\* ("onehot"), a feature that only the test file mentions ("absent") and
\* all-zero targets ("zeros") are among them.
DataSets ==
    { [name |-> "onehot", X |-> << <<1, 0>>, <<0, 1>> >>, target |-> <<1, 0>>,
       Xt |-> << <<1, 1>> >>, target_t |-> <<1>>],
      [name |-> "dense", X |-> << <<1, 1>>, <<1, 0>> >>, target |-> <<2, 1>>,
       Xt |-> << <<0, 1>>, <<1, 1>> >>, target_t |-> <<1, 2>>],
      [name |-> "absent", X |-> << <<1, 0>>, <<1, 0>> >>, target |-> <<1, 0>>,
       Xt |-> << <<1, 1>> >>, target_t |-> <<0>>],
      [name |-> "zeros", X |-> << <<1, 1>>, <<0, 1>> >>, target |-> <<0, 0>>,
       Xt |-> << <<1, 0>> >>, target_t |-> <<0>>] }

\* dim and param_regular after split(',') and map(): the list of components.
Dims == { <<a, b, c>> : a \in {0, 1}, b \in {0, 1}, c \in 0..MaxFactor }
BadDims == { <<1, 1>>, <<1, 1, 1, 1>> }
ParamRegulars == { <<1, 2, 3>> }
BadParamRegulars == { <<1, 2>> }

Methods == {"mcmc", "als"}

\* seed = -1 stands for seed=None (Python 2: None > -1 is False).
Seeds == -1..MaxSeed
Streams == 0..MaxSeed

GoodArgs ==
    [method : Methods, task : {"regression"}, dim : Dims,
     param_regular : ParamRegulars, num_iter : 1..MaxIter, seed : Seeds,
     data : DataSets]

BadArgs ==
    [method : Methods, task : {"regression"}, dim : BadDims \cup {<<1, 1, 1>>},
     param_regular : ParamRegulars \cup BadParamRegulars, num_iter : {1}, seed : {-1},
     data : {d \in DataSets : d.name = "dense"}]
    \cup
    [method : Methods, task : {"classification", "ranking"}, dim : {<<1, 1, 1>>},
     param_regular : ParamRegulars, num_iter : {1}, seed : {-1},
     data : {d \in DataSets : d.name = "dense"}]

----------------------------------------------------------------------------
VARIABLES
    args,           \* the inputs: libFM's arguments and the loaded data
    pc,             \* the statement the program is at
    raised,         \* the message of the exception that ended the run, or ""
    do_sample, do_multilevel, k0, k1, num_factor,   \* fm.*
    reg0, regw, regv,                                \* fm.reg0, fm.regw, fm.regv
    w0, w, v,                                        \* fm.w0, fm.w, fm.v (ModelState)
    rng_state, rng_pos,  \* np.random: which stream, and how many values were taken
    alpha, w_mu, w_lambda, v_mu, v_lambda,           \* MCMC_learn's hyperprior state
    cache, cache_test,                               \* <<error_term, partial_sum>>
    pred_sum_all, pred_this,
    i,              \* learn's loop counter
    f,              \* draw_all's loop counter over the factor dimensions (1-based)
    col,            \* draw_w's and draw_v's loop counter over the features (1-based)
    err, rmse_train, rmse_test_all,   \* what learn computes for its report
    out,            \* predict()'s result
    call            \* a direct call of evaluate: its arguments and what it returned

fmvars == <<do_sample, do_multilevel, k0, k1, num_factor, reg0, regw, regv>>
model == <<w0, w, v>>
rng == <<rng_state, rng_pos>>
hyper == <<alpha, w_mu, w_lambda, v_mu, v_lambda>>
caches == <<cache, cache_test>>
reports == <<pred_sum_all, pred_this, err, rmse_train, rmse_test_all, out>>
loops == <<i, f, col>>
vars == <<args, pc, raised, fmvars, model, rng, hyper, caches, reports, loops, call>>

\* An attribute that has not been assigned.
None == <<>>

----------------------------------------------------------------------------
(* The data, as MCMC_learn reads it *)

train_X == args.data.X
test_X == args.data.Xt
train_target == [l \in 1..Len(args.data.target) |-> Q(args.data.target[l])]
test_target == [l \in 1..Len(args.data.target_t) |-> Q(args.data.target_t[l])]
train_num_cases == Len(args.data.X)
test_num_cases == Len(args.data.Xt)
num_attribute == Len(args.data.X[1])
\* DataMetaInfo: one attribute group that holds every attribute.
num_attr_per_group == Q(num_attribute)

RECURSIVE MinOf(_, _)
MinOf(t, n) == IF n = 1 THEN t[1] ELSE RMin(MinOf(t, n - 1), t[n])
RECURSIVE MaxOf(_, _)
MaxOf(t, n) == IF n = 1 THEN t[1] ELSE RMax(MaxOf(t, n - 1), t[n])
min_target == MinOf(train_target, train_num_cases)
max_target == MaxOf(train_target, train_num_cases)

\* np.sum over the first n entries of a row.
RECURSIVE RSumTo(_, _)
RSumTo(s, n) == IF n = 0 THEN Zero ELSE RAdd(RSumTo(s, n - 1), s[n])

zeros(n) == [l \in 1..n |-> Zero]

\* a cache: row 0 is the error term, row 1 the partial sum
two_rows(a, b) == [r \in 0..1 |-> IF r = 0 THEN a ELSE b]

----------------------------------------------------------------------------
(* Random.h / np.random.  A stream is a generator state; the value at a     *)
(* position is fixed by the state, as it is for a seeded generator.  A      *)
(* Gaussian with a finite mean and a finite positive variance, and a Gamma  *)
(* with a finite positive scale, put mass on every (positive) real: for     *)
(* them the stream gives the value the draw lands on.  The degenerate       *)
(* parameters are computed as numpy computes them.                          *)

randn(s, pos) == Q((((s + 1) * pos + s) % 4) - 1)

standard_gamma(s, pos) == Q(1 + ((s + pos) % 2))

\* mean + stdev * np.random.randn(), stdev = np.sqrt(sigma_sqr): the square
\* root of 0, inf, NaN or a negative number is 0, inf, NaN, NaN.
ran_gaussian(mean, sigma_sqr, z) ==
    IF isnan(sigma_sqr) \/ sigma_sqr = NInf \/ sigma_sqr[1] < 0 THEN NaN
    ELSE IF sigma_sqr = Zero THEN mean
    ELSE IF sigma_sqr = PInf THEN RAdd(mean, RMul(PInf, z))
    ELSE IF isfinite(mean) THEN z
    ELSE mean

\* np.random.gamma(alpha, 1/beta)
ran_gamma(shape, beta, g) ==
    IF isfinite(beta) /\ beta[1] > 0 THEN g ELSE RMul(g, Recip(beta))

----------------------------------------------------------------------------
(* libFM.__init__ *)

initial_w(s) == [j \in 1..num_attribute |-> randn(s, j - 1)]

initial_v(s, first, K) ==
    [ff \in 1..K |-> [j \in 1..num_attribute |->
        randn(s, first + (ff - 1) * num_attribute + (j - 1))]]

libFM_init ==
    /\ pc = "libFM"
    /\ do_sample' = (args.method = "mcmc")
    /\ do_multilevel' = (args.method = "mcmc")
    /\ IF Len(args.dim) # 3 \/ Len(args.param_regular) # 3
       THEN /\ pc' = "raised"
            /\ raised' = "Error dimension not matching 3"
            /\ UNCHANGED <<k0, k1, num_factor, reg0, regw, regv, model, rng>>
       ELSE LET \* "als" is renamed "mcmc" (line 50), so the test of line 73
                \* sees "mcmc" for both methods
                method == IF args.method = "als" THEN "mcmc" ELSE args.method
                s == IF args.seed > -1 THEN args.seed ELSE rng_state
                nw == IF args.dim[2] # 0 THEN num_attribute ELSE 0
            IN  /\ k0' = (args.dim[1] # 0)
                /\ k1' = (args.dim[2] # 0)
                /\ num_factor' = args.dim[3]
                /\ reg0' = IF method = "mcmc" THEN Zero ELSE Q(args.param_regular[1])
                /\ regw' = IF method = "mcmc" THEN Zero ELSE Q(args.param_regular[2])
                /\ regv' = IF method = "mcmc" THEN Zero ELSE Q(args.param_regular[3])
                /\ rng_state' = s
                /\ w0' = IF args.dim[1] # 0 THEN Zero ELSE None
                /\ w' = IF args.dim[2] # 0 THEN initial_w(s) ELSE None
                /\ v' = IF args.dim[3] > 0 THEN initial_v(s, nw, args.dim[3]) ELSE None
                /\ rng_pos' = nw + args.dim[3] * num_attribute
                /\ pc' = "MCMC_learn"
                /\ UNCHANGED raised
    /\ UNCHANGED <<args, call, hyper, caches, reports, loops>>

----------------------------------------------------------------------------
(* MCMC_learn.__init__ *)

alpha_0 == One
gamma_0 == One
beta_0 == One
mu_0 == Zero
w0_mean_0 == Zero

MCMC_learn_init ==
    /\ pc = "MCMC_learn"
    /\ alpha' = One
    /\ w_mu' = Zero
    /\ w_lambda' = RMul(regw, One)
    /\ v_mu' = [ff \in 1..num_factor |-> Zero]
    /\ v_lambda' = [ff \in 1..num_factor |-> RMul(regv, One)]
    /\ pred_sum_all' = zeros(test_num_cases)
    /\ pred_this' = zeros(test_num_cases)
    /\ cache' = two_rows(zeros(train_num_cases), zeros(train_num_cases))
    /\ cache_test' = two_rows(zeros(test_num_cases), zeros(test_num_cases))
    /\ pc' = "learn"
    /\ UNCHANGED <<args, call, raised, fmvars, model, rng, loops, err, rmse_train,
                   rmse_test_all, out>>

----------------------------------------------------------------------------
(* predict_data_and_write_to_eterms *)

\* vec * data_t at sample row x: the product with a sparse matrix runs over
\* the stored entries only.
Dot(vec, x) ==
    RSumTo([j \in 1..Len(x) |-> IF x[j] # 0 THEN RMul(vec[j], Q(x[j])) ELSE Zero], Len(x))

\* (0.5 * (vec * vec)) * data_t.multiply(data_t) at sample row x
HalfDotSq(vec, x) ==
    RSumTo([j \in 1..Len(x) |->
              IF x[j] # 0 THEN RMul(RMul(Half, RMul(vec[j], vec[j])), Q(x[j] * x[j]))
              ELSE Zero], Len(x))

\* (1): the e-term after the first n factor dimensions, 0.5 * q_f^2 summed
RECURSIVE e_quadratic(_, _)
e_quadratic(x, n) ==
    IF n = 0 THEN Zero
    ELSE LET q == Dot(v[n], x)
         IN  RAdd(e_quadratic(x, n - 1), RMul(RMul(Half, q), q))

\* (2): the q-term after the first n factor dimensions
RECURSIVE q_squares(_, _)
q_squares(x, n) ==
    IF n = 0 THEN Zero ELSE RSub(q_squares(x, n - 1), HalfDotSq(v[n], x))

\* (3): the q-term with the 1-way interactions added
q_linear(x) ==
    IF k1 THEN RAdd(q_squares(x, num_factor), Dot(w, x)) ELSE q_squares(x, num_factor)

\* the merge: w0 + e(c) + q(c)
prediction(x) ==
    LET e == RAdd(e_quadratic(x, num_factor), q_linear(x))
    IN  IF k0 THEN RAdd(e, w0) ELSE e

\* a pass that forgets to zero the q-row at its end
eterms_keep_q(X) ==
    two_rows([l \in 1..Len(X) |-> prediction(X[l])], [l \in 1..Len(X) |-> q_linear(X[l])])

\* The two rows the pass leaves for data matrix X: the predictions, and the
\* q-row zeroed again (line 255).
eterms(X) ==
    two_rows([l \in 1..Len(X) |-> prediction(X[l])], zeros(Len(X)))

\* a conversion that leaves the raw predictions in place
target_kept(row, target) == row

\* cache[0] -= target_value
minus_target(row, target) == [l \in 1..Len(row) |-> RSub(row[l], target[l])]

----------------------------------------------------------------------------
(* draw_all: which statement follows which *)

after_draw_v_mu == IF num_factor > 0 THEN "q_rebuild" ELSE "predict"
after_draw_w == IF num_factor > 0 THEN "draw_v_lambda" ELSE after_draw_v_mu
\* a sweep that draws the weights before their hyperpriors are drawn
after_draw_w0_no_hyper == IF k1 THEN "draw_w" ELSE after_draw_w

after_draw_w0 == IF k1 THEN "draw_w_lambda" ELSE after_draw_w
after_draw_alpha == IF k0 THEN "draw_w0" ELSE after_draw_w0

----------------------------------------------------------------------------
(* the posterior draws; s is the generator state the draw reads *)

square(a) == RMul(a, a)

draw_alpha_new(s) ==
    IF ~do_multilevel THEN alpha_0
    ELSE LET alpha_n == RAdd(alpha_0, Q(train_num_cases))
             gamma_n == RSumTo([l \in 1..train_num_cases |-> square(cache[0][l])],
                               train_num_cases)
         IN  ran_gamma(RDiv(alpha_n, Q(2)), RDiv(gamma_n, Q(2)),
                       standard_gamma(s, rng_pos))

\* a bias draw that samples in point-estimate mode too
draw_w0_sampled(s) == randn(s, rng_pos)

draw_w0_new(s) ==
    LET w0_sum == RSumTo([l \in 1..train_num_cases |-> RSub(cache[0][l], w0)],
                         train_num_cases)
        w0_sigma_sqr == Recip(RAdd(reg0, RMul(alpha, Q(train_num_cases))))
        w0_mean == RNeg(RMul(w0_sigma_sqr,
                             RSub(RMul(alpha, w0_sum), RMul(w0_mean_0, reg0))))
    IN  IF do_sample THEN ran_gaussian(w0_mean, w0_sigma_sqr, randn(s, rng_pos))
        ELSE w0_mean

\* np.bincount(g, weights=(theta - mu) * (theta - mu)) for the one group
sum_sq_dev(theta, mu) ==
    RSumTo([j \in 1..num_attribute |-> square(RSub(theta[j], mu))], num_attribute)

\* a precision that is re-estimated in every mode
lambda_estimated(theta, mu, lambda, z) ==
    RDiv(RAdd(RAdd(alpha_0, num_attr_per_group), One),
         RAdd(gamma_0, sum_sq_dev(theta, mu)))

lambda_new(theta, mu, lambda, z) ==
    IF ~do_multilevel THEN lambda
    ELSE LET lambda_gamma == RAdd(RAdd(RMul(RMul(beta_0, RSub(mu, mu_0)),
                                            RSub(mu, mu_0)), gamma_0),
                                  sum_sq_dev(theta, mu))
             lambda_alpha == RAdd(RAdd(alpha_0, num_attr_per_group), One)
         IN  IF do_sample
             THEN ran_gamma(RDiv(lambda_alpha, Q(2)), RDiv(lambda_gamma, Q(2)), z)
             ELSE RDiv(lambda_alpha, lambda_gamma)

mu_new(theta, lambda, z) ==
    IF ~do_multilevel THEN RMul(mu_0, One)
    ELSE LET mu_mean == RDiv(RAdd(RSumTo(theta, num_attribute), RMul(beta_0, mu_0)),
                             RAdd(num_attr_per_group, beta_0))
             mu_sigma_sqr == Recip(RMul(RAdd(num_attr_per_group, beta_0), lambda))
         IN  IF do_sample THEN ran_gaussian(mu_mean, mu_sigma_sqr, z) ELSE mu_mean

draw_w_lambda_new(s) == lambda_new(w, w_mu, w_lambda, standard_gamma(s, rng_pos))

draw_w_mu_new(s) == mu_new(w, w_lambda, randn(s, rng_pos))

draw_v_lambda_new(s) ==
    [ff \in 1..num_factor |->
        lambda_new(v[ff], v_mu[ff], v_lambda[ff], standard_gamma(s, rng_pos + ff - 1))]

draw_v_mu_new(s) ==
    [ff \in 1..num_factor |-> mu_new(v[ff], v_lambda[ff], randn(s, rng_pos + ff - 1))]

\* how many values a hyperprior draw takes from the generator
hyper_draws(n) == IF do_multilevel /\ do_sample THEN n ELSE 0

\* The stored entries of feature c's row of data_t.
is_stored(l, c) == train_X[l][c] # 0
x_li(l, c) == Q(train_X[l][c])

\* h = x_li.multiply(-Y), Y = theta * x_li with Y.data -= np.take(row, Y.indices)
h_term(theta, row, c) ==
    [l \in 1..train_num_cases |->
        IF is_stored(l, c)
        THEN RMul(x_li(l, c), RNeg(RSub(RMul(theta, x_li(l, c)), row[l])))
        ELSE Zero]

\* the sum of a sparse row: over the stored entries
sparse_sum(term, c) ==
    RSumTo([l \in 1..train_num_cases |-> IF is_stored(l, c) THEN term[l] ELSE Zero],
           train_num_cases)

\* row -= delta * sparse, on the stored entries
patch(row, delta, sparse, c) ==
    [l \in 1..train_num_cases |->
        IF is_stored(l, c) THEN RSub(row[l], RMul(delta, sparse[l])) ELSE row[l]]

x_row(c) == [l \in 1..train_num_cases |-> x_li(l, c)]

\* the raw posterior draw of w[c] (lines 329-338, 348-351)
draw_w_raw(s, c) ==
    LET h == h_term(w[c], cache[0], c)
        w_sum == sparse_sum(h, c)
        x_sq == sparse_sum([l \in 1..train_num_cases |-> square(x_li(l, c))], c)
        w_sigma_sqr == Recip(RAdd(w_lambda, RMul(alpha, x_sq)))
        w_mean == RNeg(RMul(w_sigma_sqr,
                            RSub(RMul(alpha, w_sum), RMul(w_mu, w_lambda))))
    IN  IF do_sample THEN ran_gaussian(w_mean, w_sigma_sqr, randn(s, rng_pos))
        ELSE w_mean

\* the guard of lines 343-351 reads the value the parameter holds, theta
guard_fires(theta) == isinf(theta) \/ isnan(theta)

draw_w_new(s, c) == IF guard_fires(w[c]) THEN Zero ELSE draw_w_raw(s, c)

\* the raw posterior draw of v[ff][c] (lines 361-375, 385-388)
draw_v_raw(s, ff, c) ==
    LET h == h_term(v[ff][c], cache[1], c)
        v_sum == sparse_sum([l \in 1..train_num_cases |-> RMul(h[l], cache[0][l])], c)
        h_sq == sparse_sum([l \in 1..train_num_cases |-> square(h[l])], c)
        v_mean0 == RSub(v_sum, RMul(v[ff][c], h_sq))
        v_sigma_sqr == Recip(RAdd(v_lambda[ff], RMul(alpha, h_sq)))
        v_mean == RNeg(RMul(v_sigma_sqr,
                            RSub(RMul(alpha, v_mean0), RMul(v_mu[ff], v_lambda[ff]))))
    IN  IF do_sample THEN ran_gaussian(v_mean, v_sigma_sqr, randn(s, rng_pos))
        ELSE v_mean

draw_v_new(s, ff, c) == IF guard_fires(v[ff][c]) THEN Zero ELSE draw_v_raw(s, ff, c)

\* how many values a coordinate draw takes from the generator
coordinate_draws(theta) == IF do_sample /\ ~guard_fires(theta) THEN 1 ELSE 0

----------------------------------------------------------------------------
(* learn *)

\* line 139: self.fm.reg0, self.fm.regw, self.fm.regv = 0.0, 0.0, 0.0
learn_begin ==
    /\ pc = "learn"
    /\ reg0' = Zero
    /\ regw' = Zero
    /\ regv' = Zero
    /\ pc' = "first_predict"
    /\ UNCHANGED <<args, call, raised, do_sample, do_multilevel, k0, k1, num_factor,
                   model, rng, hyper, caches, reports, loops>>

\* lines 140 and 150: one full pass of predict_data_and_write_to_eterms
predict_data_and_write_to_eterms ==
    /\ pc \in {"first_predict", "predict"}
    /\ cache' = eterms(train_X)
    /\ cache_test' = eterms(test_X)
    /\ pc' = IF pc = "first_predict" THEN "first_residual" ELSE "evaluate"
    /\ UNCHANGED <<args, call, raised, fmvars, model, rng, hyper, reports, loops>>

loop_or_save(n) == IF n < args.num_iter THEN "draw_alpha" ELSE "save"

\* a learn that did not stop at the task test
task_unchecked == TRUE

\* if self.fm.task == 'regression' (line 142)
is_regression == args.task = "regression"

\* lines 142-148
learn_first_residual ==
    /\ pc = "first_residual"
    /\ IF is_regression
       THEN /\ cache' = two_rows(minus_target(cache[0], train_target), cache[1])
            /\ i' = 0
            /\ pc' = loop_or_save(0)
            /\ UNCHANGED raised
       ELSE /\ raised' = "Unknown task"
            /\ pc' = "raised"
            /\ UNCHANGED <<cache, i>>
    /\ UNCHANGED <<args, call, fmvars, model, rng, hyper, cache_test, reports, f, col>>

RAbs(a) == <<Abs(a[1]), a[2]>>

\* an evaluate that truncates to the shorter vector and never fails
evaluate_truncating(pred, target, normalizer, from_case, to_case) ==
    LET end == IF Len(pred) <= Len(target) THEN Len(pred) ELSE Len(target)
        tmp == [l \in 1..end |->
                   clip(RMul(pred[l], normalizer), min_target, max_target)]
        e == [l \in 1..end |-> RSub(tmp[l], target[l])]
    IN  [failed |-> FALSE,
         end |-> end,
         tmp |-> tmp,
         mse |-> RDiv(RSumTo([l \in 1..end |-> square(e[l])], end), Q(end)),
         mae |-> RDiv(RSumTo([l \in 1..end |-> RAbs(e[l])], end), Q(end))]

\* evaluate(pred, target, normalizer, from_case, to_case).  rmse is the
\* square root of the mse field.
evaluate(pred, target, normalizer, from_case, to_case) ==
    IF Len(pred) # Len(target) THEN [failed |-> TRUE]
    ELSE LET end == IF Len(pred) <= to_case THEN Len(pred) ELSE to_case
             tmp == [l \in 1..end |->
                        clip(RMul(pred[l], normalizer), min_target, max_target)]
             e == [l \in 1..end |-> RSub(tmp[l], target[l])]
         IN  [failed |-> FALSE,
              end |-> end,
              tmp |-> tmp,
              mse |-> RDiv(RSumTo([l \in 1..end |-> square(e[l])], end), Q(end)),
              mae |-> RDiv(RSumTo([l \in 1..end |-> RAbs(e[l])], end), Q(end))]

\* a row passed on without the clip
unclipped_row(row) == row

clip_row(row) == [l \in 1..Len(row) |-> clip(row[l], min_target, max_target)]

\* a running sum of the unclipped predictions
pred_sum_all_unclipped ==
    [l \in 1..test_num_cases |-> RAdd(pred_sum_all[l], cache_test[0][l])]

\* self.pred_sum_all += tmp (line 159)
pred_sum_all_new ==
    [l \in 1..test_num_cases |-> RAdd(pred_sum_all[l], clip_row(cache_test[0])[l])]

\* the normalizer of line 175
normalizer == Recip(Q(i + 1))

\* lines 152-176, and the loop's next turn
learn_evaluate ==
    /\ pc = "evaluate"
    /\ IF is_regression
       THEN LET e == minus_target(clip_row(cache[0]), train_target)
            IN  /\ pred_this' = cache_test[0]
                /\ pred_sum_all' = pred_sum_all_new
                /\ err' = e
                /\ rmse_train' = RDiv(RSumTo([l \in 1..train_num_cases |-> square(e[l])],
                                            train_num_cases), Q(train_num_cases))
                /\ cache' = two_rows(minus_target(cache[0], train_target), cache[1])
                /\ rmse_test_all' = evaluate(pred_sum_all_new, test_target, normalizer,
                                             0, test_num_cases)
                /\ i' = i + 1
                /\ pc' = loop_or_save(i + 1)
                /\ UNCHANGED raised
       ELSE /\ IF args.task = "classification"
               THEN i' = i + 1 /\ pc' = loop_or_save(i + 1) /\ UNCHANGED raised
               ELSE raised' = "Unknown task" /\ pc' = "raised" /\ UNCHANGED i
            /\ UNCHANGED <<pred_this, pred_sum_all, err, rmse_train, cache,
                           rmse_test_all>>
    /\ UNCHANGED <<args, call, fmvars, model, rng, hyper, cache_test, out, f, col>>

\* predict()
predict ==
    LET o == IF do_sample
             THEN [l \in 1..Len(pred_sum_all) |-> RDiv(pred_sum_all[l], Q(args.num_iter))]
             ELSE pred_this
    IN  clip_row(o)

\* lines 181-191: fm.save is True
learn_save ==
    /\ pc = "save"
    /\ out' = predict
    /\ pc' = "done"
    /\ UNCHANGED <<args, call, raised, fmvars, model, rng, hyper, caches, pred_sum_all,
                   pred_this, err, rmse_train, rmse_test_all, loops>>

----------------------------------------------------------------------------
(* draw_all, one statement at a time *)

draw_alpha ==
    /\ pc = "draw_alpha"
    /\ alpha' = draw_alpha_new(rng_state)
    /\ rng_pos' = rng_pos + (IF do_multilevel THEN 1 ELSE 0)
    /\ pc' = after_draw_alpha
    /\ col' = 1
    /\ f' = 1
    /\ UNCHANGED <<args, call, raised, fmvars, model, rng_state, w_mu, w_lambda, v_mu,
                   v_lambda, caches, reports, i>>

draw_w0 ==
    /\ pc = "draw_w0"
    /\ w0' = draw_w0_new(rng_state)
    /\ rng_pos' = rng_pos + (IF do_sample THEN 1 ELSE 0)
    \* self.cache[0] -= (w0_old - self.fm.w0)
    /\ cache' = two_rows([l \in 1..train_num_cases |->
                             RSub(cache[0][l], RSub(w0, draw_w0_new(rng_state)))],
                         cache[1])
    /\ pc' = after_draw_w0
    /\ UNCHANGED <<args, call, raised, fmvars, w, v, rng_state, hyper, cache_test, reports,
                   loops>>

draw_w_lambda ==
    /\ pc = "draw_w_lambda"
    /\ w_lambda' = draw_w_lambda_new(rng_state)
    /\ rng_pos' = rng_pos + hyper_draws(1)
    /\ pc' = "draw_w_mu"
    /\ UNCHANGED <<args, call, raised, fmvars, model, rng_state, alpha, w_mu, v_mu, v_lambda,
                   caches, reports, loops>>

draw_w_mu ==
    /\ pc = "draw_w_mu"
    /\ w_mu' = draw_w_mu_new(rng_state)
    /\ rng_pos' = rng_pos + hyper_draws(1)
    /\ pc' = "draw_w"
    /\ col' = 1
    /\ UNCHANGED <<args, call, raised, fmvars, model, rng_state, alpha, w_lambda, v_mu,
                   v_lambda, caches, reports, i, f>>

\* one turn of draw_w's loop: feature col
draw_w ==
    /\ pc = "draw_w"
    /\ LET w_new == draw_w_new(rng_state, col)
       IN  /\ w' = [w EXCEPT ![col] = w_new]
           /\ cache' = two_rows(patch(cache[0], RSub(w[col], w_new), x_row(col), col),
                                cache[1])
    /\ rng_pos' = rng_pos + coordinate_draws(w[col])
    /\ IF col < num_attribute
       THEN col' = col + 1 /\ pc' = "draw_w"
       ELSE col' = 1 /\ pc' = after_draw_w
    /\ UNCHANGED <<args, call, raised, fmvars, w0, v, rng_state, hyper, cache_test, reports,
                   i, f>>

draw_v_lambda ==
    /\ pc = "draw_v_lambda"
    /\ v_lambda' = draw_v_lambda_new(rng_state)
    /\ rng_pos' = rng_pos + hyper_draws(num_factor)
    /\ pc' = "draw_v_mu"
    /\ UNCHANGED <<args, call, raised, fmvars, model, rng_state, alpha, w_mu, w_lambda, v_mu,
                   caches, reports, loops>>

draw_v_mu ==
    /\ pc = "draw_v_mu"
    /\ v_mu' = draw_v_mu_new(rng_state)
    /\ rng_pos' = rng_pos + hyper_draws(num_factor)
    /\ pc' = after_draw_v_mu
    /\ f' = 1
    /\ UNCHANGED <<args, call, raised, fmvars, model, rng_state, alpha, w_mu, w_lambda,
                   v_lambda, caches, reports, i, col>>

\* the q-row of factor dimension ff: v[ff] * data_t
q_row(ff) == [l \in 1..train_num_cases |-> Dot(v[ff], train_X[l])]

\* lines 296-298: the partial sums of dimension f replace the q-row
q_rebuild ==
    /\ pc = "q_rebuild"
    /\ cache' = two_rows(cache[0], [l \in 1..train_num_cases |->
                                       RAdd(Zero, q_row(f)[l])])
    /\ col' = 1
    /\ pc' = "draw_v"
    /\ UNCHANGED <<args, call, raised, fmvars, model, rng, hyper, cache_test, reports, i, f>>

\* one turn of draw_v's loop: feature col of factor dimension f
draw_v ==
    /\ pc = "draw_v"
    /\ LET v_old == v[f][col]
           v_new == draw_v_new(rng_state, f, col)
           h == h_term(v_old, cache[1], col)
       IN  /\ v' = [v EXCEPT ![f][col] = v_new]
           /\ cache' = two_rows(patch(cache[0], RSub(v_old, v_new), h, col),
                                patch(cache[1], RSub(v_old, v_new), x_row(col), col))
    /\ rng_pos' = rng_pos + coordinate_draws(v[f][col])
    /\ IF col < num_attribute
       THEN col' = col + 1 /\ pc' = "draw_v" /\ f' = f
       ELSE /\ col' = 1
            /\ f' = f + 1
            /\ pc' = IF f < num_factor THEN "q_rebuild" ELSE "predict"
    /\ UNCHANGED <<args, call, raised, fmvars, w0, w, rng_state, hyper, cache_test, reports, i>>

----------------------------------------------------------------------------

Init ==
    /\ args \in GoodArgs \cup BadArgs
    /\ pc = "libFM"
    /\ raised = ""
    /\ do_sample = FALSE /\ do_multilevel = FALSE /\ k0 = FALSE /\ k1 = FALSE
    /\ num_factor = 0
    /\ reg0 = None /\ regw = None /\ regv = None
    /\ w0 = None /\ w = None /\ v = None
    \* the generator's state at start matters only when libFM does not seed it
    /\ rng_state \in Streams
    /\ args.seed > -1 => rng_state = 0
    /\ rng_pos = 0
    /\ alpha = None /\ w_mu = None /\ w_lambda = None /\ v_mu = None /\ v_lambda = None
    /\ cache = None /\ cache_test = None
    /\ pred_sum_all = None /\ pred_this = None
    /\ i = 0 /\ f = 1 /\ col = 1
    /\ err = None /\ rmse_train = None /\ rmse_test_all = None
    /\ out = None
    /\ call = None

Next ==
    \/ libFM_init
    \/ MCMC_learn_init
    \/ learn_begin
    \/ predict_data_and_write_to_eterms
    \/ learn_first_residual
    \/ draw_alpha
    \/ draw_w0
    \/ draw_w_lambda
    \/ draw_w_mu
    \/ draw_w
    \/ draw_v_lambda
    \/ draw_v_mu
    \/ q_rebuild
    \/ draw_v
    \/ learn_evaluate
    \/ learn_save

Spec == Init /\ [][Next]_vars

----------------------------------------------------------------------------
(* evaluate called on its own, on an MCMC_learn object built from args *)

EvalValues == {Q(0), Q(1), Q(3)}

\* the vectors of n entries
EvalVectorsOf(n) == [1..n -> EvalValues]
EvalVectors == UNION { EvalVectorsOf(n) : n \in 0..MaxLen }

EvalCalls ==
    [pred : EvalVectors, target : EvalVectors, normalizer : {One, Half},
     from_case : {0}, to_case : 0..(MaxLen + 1), result : {None}]

evaluate_Init ==
    /\ Init
    /\ args.data.name = "dense" /\ args.dim = <<1, 1, 1>> /\ args.num_iter = 1
    /\ args.seed = -1 /\ args.method = "mcmc" /\ args.task = "regression"
    /\ rng_state = 0

\* the caller picks the arguments
evaluate_arguments ==
    /\ pc = "libFM"
    /\ call = None
    /\ call' \in EvalCalls
    /\ pc' = "evaluate_call"
    /\ UNCHANGED <<args, raised, fmvars, model, rng, hyper, caches, reports, loops>>

\* lines 257-274; the assert of line 258 ends the call with an AssertionError
evaluate_call ==
    /\ pc = "evaluate_call"
    /\ LET r == evaluate(call.pred, call.target, call.normalizer,
                         call.from_case, call.to_case)
       IN  IF r.failed
           THEN pc' = "raised" /\ raised' = "AssertionError" /\ UNCHANGED call
           ELSE pc' = "returned" /\ call' = [call EXCEPT !.result = r]
                /\ UNCHANGED raised
    /\ UNCHANGED <<args, fmvars, model, rng, hyper, caches, reports, loops>>

evaluate_Next ==
    \/ evaluate_arguments
    \/ evaluate_call

evaluate_Spec == evaluate_Init /\ [][evaluate_Next]_vars

----------------------------------------------------------------------------
(* Properties *)

SweepSteps == {"draw_alpha", "draw_w0", "draw_w_lambda", "draw_w_mu", "draw_w",
               "draw_v_lambda", "draw_v_mu", "q_rebuild", "draw_v"}

\* the positions of learn() from its first statement on
LearnSteps == SweepSteps \cup {"learn", "first_predict", "first_residual",
                               "predict", "evaluate", "save", "done"}

\* prediction minus target for every training sample, from the current model
residual_from_scratch ==
    [l \in 1..train_num_cases |-> RSub(prediction(train_X[l]), train_target[l])]

\* C1: between any two steps of a sweep and at the sweep's end, the patched
\* training row cache[0] equals, for every training sample, the prediction
\* computed from scratch from the current bias, weights and factors, minus the
\* sample's target.
C1_PatchedCacheEqualsRecompute ==
    pc \in SweepSteps \cup {"predict"} => cache[0] = residual_from_scratch

\* C2: a weight or factor whose raw posterior draw is NaN or infinite is
\* committed as exactly 0, with the cache patched from that 0, and no weight or
\* factor is NaN or infinite after its draw is committed.
C2_NonFiniteDrawCommitsZero ==
    [][/\ pc = "draw_w" =>
            /\ isfinite(w'[col])
            /\ ~isfinite(draw_w_raw(rng_state, col)) =>
                    /\ w'[col] = Zero
                    /\ cache'[0] = patch(cache[0], RSub(w[col], Zero), FALSE, col)
       /\ pc = "draw_v" =>
            /\ isfinite(v'[f][col])
            /\ ~isfinite(draw_v_raw(rng_state, f, col)) => v'[f][col] = Zero
      ]_vars

\* the order of the steps of a sweep, as draw_all lists them
sweep_order == <<"draw_alpha", "draw_w0", "draw_w_lambda", "draw_w_mu", "draw_w",
                 "draw_v_lambda", "draw_v_mu", "q_rebuild", "draw_v">>

step_enabled(p) ==
    CASE p = "draw_alpha" -> TRUE
      [] p = "draw_w0" -> k0
      [] p \in {"draw_w_lambda", "draw_w_mu", "draw_w"} -> k1
      [] OTHER -> num_factor > 0

position(p) == CHOOSE n \in 1..Len(sweep_order) : sweep_order[n] = p

RECURSIVE first_enabled_from(_)
first_enabled_from(n) ==
    IF n > Len(sweep_order) THEN "predict"
    ELSE IF step_enabled(sweep_order[n]) THEN sweep_order[n]
    ELSE first_enabled_from(n + 1)

\* the step that follows the one at pc, with the coordinate it works on
expected_next ==
    CASE pc = "draw_w" /\ col < num_attribute ->
            [pc |-> "draw_w", f |-> f, col |-> col + 1]
      [] pc = "q_rebuild" ->
            [pc |-> "draw_v", f |-> f, col |-> 1]
      [] pc = "draw_v" /\ col < num_attribute ->
            [pc |-> "draw_v", f |-> f, col |-> col + 1]
      [] pc = "draw_v" /\ col = num_attribute /\ f < num_factor ->
            [pc |-> "q_rebuild", f |-> f + 1, col |-> 1]
      [] OTHER ->
            [pc |-> first_enabled_from(position(pc) + 1),
             f |-> IF pc = "draw_v" THEN f + 1 ELSE 1, col |-> 1]

\* C3: within a sweep the steps follow one another in the order alpha, bias,
\* weight hyperpriors, every weight, factor hyperpriors, and then for each
\* factor dimension in turn the scratch row and every factor of it; a sweep
\* starts at alpha; a disabled step never runs.
C3_SweepOrder ==
    /\ [](pc \in SweepSteps => step_enabled(pc))
    /\ [][/\ pc \in SweepSteps =>
                /\ pc' = expected_next.pc
                /\ pc' \in {"draw_w", "q_rebuild", "draw_v"} =>
                        f' = expected_next.f /\ col' = expected_next.col
          /\ pc \notin SweepSteps /\ pc' \in SweepSteps => pc' = "draw_alpha"
         ]_vars

\* a sweep without bias, in the second factor dimension, after the weights
C3_SecondDimensionReached ==
    pc = "draw_v" /\ f = 2 /\ col = num_attribute /\ ~k0 /\ k1

\* the raw predictions of the test samples, from the current model
test_prediction == [l \in 1..test_num_cases |-> prediction(test_X[l])]

\* C4: at the entry of every sweep, the first included, cache[0] of the
\* training cache holds prediction minus target for every training sample; the
\* conversion happens once after each recompute and in no other step; the test
\* cache holds raw predictions and only a recompute writes it.
C4_ResidualConversionOncePerRecompute ==
    /\ [](pc = "draw_alpha" =>
            /\ cache[0] = residual_from_scratch
            /\ cache_test[0] = test_prediction)
    /\ [](pc \in {"first_residual", "evaluate"} =>
            /\ cache[0] = [l \in 1..train_num_cases |-> prediction(train_X[l])]
            /\ cache_test[0] = test_prediction)
    /\ [][/\ pc \in {"first_residual", "evaluate"} /\ pc' # "raised" =>
                cache'[0] = [l \in 1..train_num_cases |->
                                RSub(cache[0][l], train_target[l])]
          /\ pc \in LearnSteps \ {"first_predict", "predict"} =>
                cache_test' = cache_test
         ]_vars

\* the second sweep is entered with targets that are not all zero
C4_SecondSweepEntered ==
    pc = "draw_alpha" /\ i = 1 /\ train_target # zeros(train_num_cases)
                      /\ cache[0] # [l \in 1..train_num_cases |-> prediction(train_X[l])]

\* C5 as stated: at the start and at the end of every recompute pass, cache[1]
\* of the train and of the test cache is zero in every entry.
C5_PartialSumZeroAtStartAndEnd ==
    pc \in {"first_predict", "predict", "first_residual", "evaluate"} =>
        /\ cache[1] = zeros(train_num_cases)
        /\ cache_test[1] = zeros(test_num_cases)

\* C5 amended: at the end of every recompute pass cache[1] of both caches is
\* zero in every entry; at the start of a pass cache[1] of the test cache is
\* zero, and cache[1] of the train cache is zero before the first sweep and
\* whenever there are no factors.
C5_PartialSumZeroAtEnd ==
    /\ pc \in {"first_residual", "evaluate"} =>
            /\ cache[1] = zeros(train_num_cases)
            /\ cache_test[1] = zeros(test_num_cases)
    /\ pc \in {"first_predict", "predict"} =>
            /\ cache_test[1] = zeros(test_num_cases)
            /\ (pc = "first_predict" \/ num_factor = 0) =>
                    cache[1] = zeros(train_num_cases)

\* a pass has ended after a sweep that left the last dimension's partial sums
C5_RecomputeAfterFactorSweep ==
    /\ pc = "evaluate" /\ num_factor = 2 /\ i = 1
    /\ \E l \in 1..train_num_cases : q_row(num_factor)[l] # Zero

\* clip of a / n for every entry of row a
clipped_mean(a, n) ==
    [l \in 1..Len(a) |-> clip(RDiv(a[l], Q(n)), min_target, max_target)]

\* C6 as stated: the prediction behind the per-iteration test report and the
\* output of predict() are the running sum over the iterations so far when
\* do_sample is true, and the current iteration's prediction alone when
\* do_sample is false.
C6_ReportByMode ==
    /\ (i >= 1 /\ pc \in LearnSteps) =>
            rmse_test_all.tmp = IF do_sample THEN clipped_mean(pred_sum_all, i)
                                ELSE clip_row(pred_this)
    /\ pc = "done" =>
            out = IF do_sample THEN clipped_mean(pred_sum_all, i)
                  ELSE clip_row(pred_this)

\* C6 amended: every iteration adds the clipped test prediction of the current
\* model to the running sum and keeps the unclipped one as the current
\* prediction; the per-iteration test report is computed, in both modes, from
\* the running sum divided by the number of iterations so far; predict()
\* returns the clipped mean of the running sum over num_iter when do_sample is
\* true and the clipped current prediction when do_sample is false.
C6_ReportIsRunningMean ==
    /\ []((i >= 1 /\ pc \in LearnSteps) =>
            /\ ~rmse_test_all.failed
            /\ rmse_test_all.tmp = clipped_mean(pred_sum_all, i))
    /\ [](pc = "done" =>
            /\ i = args.num_iter
            /\ out = IF do_sample THEN clipped_mean(pred_sum_all, i)
                     ELSE clip_row(pred_this))
    /\ [][pc = "evaluate" =>
            /\ pred_this' = test_prediction
            /\ pred_sum_all' = [l \in 1..test_num_cases |->
                    RAdd(pred_sum_all[l],
                         clip(test_prediction[l], min_target, max_target))]
         ]_vars

\* a point-estimate run of finite predictions is done whose last prediction
\* is not the running mean
C6_PointEstimateAveraged ==
    /\ pc = "done" /\ ~do_sample /\ i = 2
    /\ clip_row(pred_this) # clipped_mean(pred_sum_all, i)
    /\ \A l \in 1..test_num_cases : isfinite(pred_this[l]) /\ isfinite(pred_sum_all[l])

\* C7: with method 'als', throughout learn() the bias regularization is r0,
\* the weight precision r1 and every factor precision r2 of param_regular.
C7_RegularizationIsParamRegular ==
    (args.method = "als" /\ pc \in LearnSteps \ {"learn"}) =>
        /\ reg0 = Q(args.param_regular[1])
        /\ w_lambda = Q(args.param_regular[2])
        /\ \A ff \in 1..num_factor : v_lambda[ff] = Q(args.param_regular[3])

\* C8: the vector predict() returns has one entry per test sample, each of
\* them within [min_target, max_target] of the training targets.
C8_PredictionWithinTargetRange ==
    pc = "done" =>
        /\ Len(out) = test_num_cases
        /\ \A l \in 1..test_num_cases :
                RLe(min_target, out[l]) /\ RLe(out[l], max_target)

\* C9: a dim or param_regular without exactly 3 components raises in the
\* constructor before any parameter is initialized or any value is drawn; a
\* task other than 'regression' raises in learn() before any sweep.
C9_ConfigErrorsAreFatal ==
    /\ (Len(args.dim) # 3 \/ Len(args.param_regular) # 3) =>
            /\ pc \in {"libFM", "raised"}
            /\ pc = "raised" => raised = "Error dimension not matching 3"
            /\ w0 = None /\ w = None /\ v = None /\ rng_pos = 0
    /\ (Len(args.dim) = 3 /\ Len(args.param_regular) = 3
            /\ args.task # "regression") =>
            /\ pc \in {"libFM", "MCMC_learn", "learn", "first_predict",
                       "first_residual", "raised"}
            /\ pc = "raised" => raised = "Unknown task"
            /\ i = 0
            /\ pc # "libFM" =>
                    /\ k1 => w = initial_w(rng_state)
                    /\ k0 => w0 = Zero

\* learn() has raised for an unsupported task
C9_UnknownTaskRaised ==
    pc = "raised" /\ args.task = "classification" /\ raised = "Unknown task"

\* C10: in point-estimate mode no step of learn() takes a value from the
\* generator, and the outcome of every step of a sweep is the same whatever
\* the generator would have produced.
C10_PointEstimateIsDeterministic ==
    (~do_sample /\ ~do_multilevel /\ pc \in LearnSteps) =>
        /\ rng_pos = (IF k1 THEN num_attribute ELSE 0) + num_factor * num_attribute
        /\ \A s \in Streams :
            /\ pc = "draw_alpha" => draw_alpha_new(s) = draw_alpha_new(rng_state)
            /\ pc = "draw_w0" => draw_w0_new(s) = draw_w0_new(rng_state)
            /\ pc = "draw_w_lambda" => draw_w_lambda_new(s) = draw_w_lambda_new(rng_state)
            /\ pc = "draw_w_mu" => draw_w_mu_new(s) = draw_w_mu_new(rng_state)
            /\ pc = "draw_w" => draw_w_new(s, col) = draw_w_new(rng_state, col)
            /\ pc = "draw_v_lambda" => draw_v_lambda_new(s) = draw_v_lambda_new(rng_state)
            /\ pc = "draw_v_mu" => draw_v_mu_new(s) = draw_v_mu_new(rng_state)
            /\ pc = "draw_v" => draw_v_new(s, f, col) = draw_v_new(rng_state, f, col)

\* a point-estimate sweep draws the bias in its second iteration
C10_PointEstimateSweepReached ==
    ~do_sample /\ pc = "draw_w0" /\ i = 1 /\ num_factor > 0 /\ k1

\* the error of the first n samples of a call: clip(pred * normalizer) - target
call_error(n) ==
    [l \in 1..n |-> RSub(clip(RMul(call.pred[l], call.normalizer),
                              min_target, max_target), call.target[l])]

\* the call returned the squared RMSE and the MAE of exactly its first n samples
returned_over(n) ==
    /\ pc = "returned"
    /\ call.result.end = n
    /\ call.result.mse = RDiv(RSumTo([l \in 1..n |-> square(call_error(n)[l])], n), Q(n))
    /\ call.result.mae = RDiv(RSumTo([l \in 1..n |-> RAbs(call_error(n)[l])], n), Q(n))

shorter_length ==
    IF Len(call.pred) <= Len(call.target) THEN Len(call.pred) ELSE Len(call.target)

\* C11 as stated: for any pred and target, also of different lengths, evaluate
\* does not fail and returns RMSE and MAE over exactly the first
\* min(len(pred), len(target)) samples.
C11_EvaluateTruncates ==
    pc \in {"returned", "raised"} => returned_over(shorter_length)

\* C11 amended: evaluate fails with an AssertionError exactly when pred and
\* target differ in length; for vectors of equal length it returns RMSE and MAE
\* over exactly the first min(len(pred), to_case) samples.
C11_EvaluateNeedsEqualLengths ==
    pc \in {"returned", "raised"} =>
        IF Len(call.pred) # Len(call.target)
        THEN pc = "raised" /\ raised = "AssertionError" /\ call.result = None
        ELSE returned_over(IF Len(call.pred) <= call.to_case
                           THEN Len(call.pred) ELSE call.to_case)

\* evaluate was called with a pred shorter than target, both with samples
C11_DifferentLengthsCalled ==
    /\ pc \in {"returned", "raised"}
    /\ Len(call.pred) = 1 /\ Len(call.target) = 2 /\ call.to_case = 2

\* C12: in non-multilevel mode, throughout learn() and so after every sweep,
\* alpha is alpha_0 and every weight mean and factor mean is mu_0, and no step
\* of a sweep changes the weight precision or a factor precision.
C12_HyperpriorsPinned ==
    /\ []((~do_multilevel /\ pc \in LearnSteps) =>
            /\ alpha = alpha_0
            /\ w_mu = mu_0
            /\ \A ff \in 1..num_factor : v_mu[ff] = mu_0)
    /\ [][(~do_multilevel /\ pc \in SweepSteps) =>
            w_lambda' = w_lambda /\ v_lambda' = v_lambda]_vars

\* a non-multilevel sweep has passed draw_w_lambda and draw_v_lambda with
\* weights and factors that a re-estimate would respond to
C12_PinnedSweepReached ==
    ~do_multilevel /\ pc = "draw_v_mu" /\ k1 /\ i = 1 /\ w # zeros(num_attribute)

\* the training predictions of the current model
train_prediction == [l \in 1..train_num_cases |-> prediction(train_X[l])]

\* the clipped training prediction minus the target
clipped_residual ==
    [l \in 1..train_num_cases |->
        RSub(clip(train_prediction[l], min_target, max_target), train_target[l])]

\* learn has finished an iteration: the report is made and cache[0] is ready
\* for the next sweep
iteration_finished == i >= 1 /\ pc \in {"draw_alpha", "save"}

\* C13 as stated: after each sweep's recompute, cache[0] kept for the next
\* sweep is the clipped training prediction minus the target, the value the
\* reported training RMSE is computed from.
C13_ClippedResidualInCache ==
    iteration_finished => cache[0] = clipped_residual /\ cache[0] = err

\* C13 amended: the clip is applied to reporting only.  The reported training
\* RMSE is computed from the clipped training prediction minus the target;
\* cache[0] kept for the next sweep is the unclipped prediction minus the
\* target; the two agree on every sample whose prediction lies within
\* [min_target, max_target].
C13_ClipOnlyInReport ==
    iteration_finished =>
        /\ err = clipped_residual
        /\ rmse_train = RDiv(RSumTo([l \in 1..train_num_cases |->
                                        RMul(clipped_residual[l], clipped_residual[l])],
                                    train_num_cases), Q(train_num_cases))
        /\ cache[0] = [l \in 1..train_num_cases |->
                            RSub(train_prediction[l], train_target[l])]
        /\ \A l \in 1..train_num_cases :
                (RLe(min_target, train_prediction[l]) /\ RLe(train_prediction[l], max_target))
                    => cache[0][l] = err[l]

\* an iteration has finished with a finite training prediction outside
\* [min_target, max_target]
C13_PredictionOutOfRange ==
    /\ iteration_finished
    /\ \E l \in 1..train_num_cases :
            /\ isfinite(train_prediction[l])
            /\ ~RLe(train_prediction[l], max_target)
            /\ cache[0][l] # err[l]

\* sum_i v[ff][i] * x_i for every training sample, from the current factors
scratch_from_factors(ff) ==
    [l \in 1..train_num_cases |-> Dot(v[ff], train_X[l])]

\* C14: during the factor pass of dimension f, before its first coordinate
\* draw and after every coordinate draw of it, the scratch row cache[1] is
\* sum_i v[f][i] * x_i for every training sample, over the current values of
\* dimension f.
C14_ScratchRowIsDimensionSum ==
    /\ pc = "draw_v" => cache[1] = scratch_from_factors(f)
    /\ (pc \in {"q_rebuild", "predict"} /\ f > 1) =>
            cache[1] = scratch_from_factors(f - 1)
====
